---- MODULE Spec2Model ----
(***************************************************************************)
(* WildFact reply engine (bot/assistant_engine.py) and the Telegram        *)
(* polling loop (bot/telegram_polling_bot.py).                             *)
(*                                                                         *)
(* Text.  A Python str is modelled as a sequence of atoms.  An atom is a   *)
(* one-character string, or a fixed chunk of template text that the code   *)
(* only ever concatenates (never searches, lower-cases or strips).  Every  *)
(* text the code searches in or compares (prompts, names, trigger words,   *)
(* classifications, model responses) is a sequence of one-character atoms. *)
(* The empty str is <<>>.  An Optional is <<>> (None) or <<value>>.        *)
(***************************************************************************)
EXTENDS Integers, Sequences, FiniteSets, TLC

VARIABLES
  prompt,      \* generate_reply_with_qwen: the prompt argument
  config,      \* the config argument (bot-config.json)
  animals,     \* the animals argument (animals.json)
  use_ai,      \* the use_ai argument
  pc,          \* "start" before the call, "done" after it
  branch,      \* the return statement of build_rule_reply that produced fallback (1..8)
  category,    \* what _resolve_category_query returned inside build_rule_reply
  fallback,    \* generate_reply_with_qwen's local `fallback`
  calls,       \* number of requests.post calls to the model provider
  outcome,     \* what the provider call did: "none", "raised", "returned"
  model_text,  \* the text the provider function returned (when outcome = "returned")
  raised,      \* the exception that left generate_reply_with_qwen ("" when none)
  reply,       \* the value generate_reply_with_qwen returned
  options,     \* _pick: its argument
  picked,      \* _pick: <<>> before the call, <<element>> after it
  offset,      \* run_polling: the local `offset`
  ppc,         \* run_polling: "poll" (about to call getUpdates) or "loop" (in the for loop)
  batch,       \* run_polling: the updates of the current result not yet iterated
  updates,     \* Telegram: the updates that have arrived; the update with id i is updates[i]
  fetched,     \* per update id, how many times getUpdates returned it
  generated,   \* per update id, how many times it reached generate_reply_with_qwen
  sent,        \* per update id, how many times sendMessage was called for it
  failed,      \* update ids whose handling raised
  last_error   \* what the except clause last printed about ("" when nothing yet)

engineVars == <<prompt, config, animals, use_ai, pc, branch, category, fallback,
                calls, outcome, model_text, raised, reply>>
pickVars == <<options, picked>>
pollVars == <<offset, ppc, batch, updates, fetched, generated, sent, failed, last_error>>
vars == <<engineVars, pickVars, pollVars>>

(***************************************************************************)
(* Bounds of the model.                                                    *)
(***************************************************************************)
MaxPhrases == 2
MaxOptions == 258
MaxUpdates == 3

(***************************************************************************)
(* Python built-ins on str and list.                                       *)
(***************************************************************************)
None == <<>>
Some(x) == <<x>>

Min(S) == CHOOSE x \in S : \A y \in S : x <= y
Max(S) == CHOOSE x \in S : \A y \in S : x >= y

Letters ==
  {"a","b","c","d","e","f","g","h","i","j","k","l","m",
   "n","o","p","q","r","s","t","u","v","w","x","y","z"}

Whitespace == {" ", "\t", "\n"}

UpperToLower ==
  "A" :> "a" @@ "B" :> "b" @@ "C" :> "c" @@ "D" :> "d" @@ "E" :> "e" @@
  "F" :> "f" @@ "G" :> "g" @@ "H" :> "h" @@ "I" :> "i" @@ "J" :> "j" @@
  "K" :> "k" @@ "L" :> "l" @@ "M" :> "m" @@ "N" :> "n" @@ "O" :> "o" @@
  "P" :> "p" @@ "Q" :> "q" @@ "R" :> "r" @@ "S" :> "s" @@ "T" :> "t" @@
  "U" :> "u" @@ "V" :> "v" @@ "W" :> "w" @@ "X" :> "x" @@ "Y" :> "y" @@
  "Z" :> "z"

\* str.lower()
Lower(text) ==
  [i \in 1..Len(text) |->
     IF text[i] \in DOMAIN UpperToLower THEN UpperToLower[text[i]] ELSE text[i]]

\* str.upper()
Upper(text) ==
  [i \in 1..Len(text) |->
     IF \E u \in DOMAIN UpperToLower : UpperToLower[u] = text[i]
       THEN CHOOSE u \in DOMAIN UpperToLower : UpperToLower[u] = text[i]
       ELSE text[i]]

\* `word in text` on str: the empty word is in every text
Contains(text, word) ==
  \E i \in 0..(Len(text) - Len(word)) : SubSeq(text, i + 1, i + Len(word)) = word

\* str.strip()
Strip(text) ==
  LET keep == {i \in 1..Len(text) : text[i] \notin Whitespace}
  IN IF keep = {} THEN <<>> ELSE SubSeq(text, Min(keep), Max(keep))

\* str.rstrip(chars)
RStrip(text, chars) ==
  LET keep == {i \in 1..Len(text) : text[i] \notin chars}
  IN IF keep = {} THEN <<>> ELSE SubSeq(text, 1, Max(keep))

\* sep.join(parts)
RECURSIVE Join(_, _)
Join(sep, parts) ==
  IF Len(parts) = 0 THEN <<>>
  ELSE IF Len(parts) = 1 THEN parts[1]
  ELSE parts[1] \o sep \o Join(sep, Tail(parts))

\* dict.get(key, default)
Get(d, key, default) == IF key \in DOMAIN d THEN d[key] ELSE default

\* list[:n]
Take(list, n) == SubSeq(list, 1, IF Len(list) < n THEN Len(list) ELSE n)

\* os.urandom(1)[0]
Byte == 0..255

(***************************************************************************)
(* assistant_engine.py                                                     *)
(***************************************************************************)

\* _pick(options), with the byte os.urandom returned
_pick(opts, rnd) ==
  IF Len(opts) = 0 THEN <<>>
  ELSE opts[(rnd % Len(opts)) + 1]

_matches_any(text, words) ==
  \E i \in 1..Len(words) : Contains(text, words[i])

CommonName(a) == Get(a, "commonName", <<>>)
ScientificName(a) == Get(a, "scientificName", <<>>)
Classification(a) == Get(a, "classification", <<>>)

\* Variant: a name must be the whole prompt, not a part of it.
AnimalMatchesWholePrompt(normalized, a) ==
  LET common_name == Lower(CommonName(a))
      scientific_name == Lower(ScientificName(a))
  IN common_name # <<>>
     /\ (normalized = common_name \/ normalized = scientific_name)

\* the condition of the if in _find_animals_in_prompt
AnimalMatches(normalized, a) ==
  LET common_name == Lower(CommonName(a))
      scientific_name == Lower(ScientificName(a))
  IN common_name # <<>>
     /\ (Contains(normalized, common_name) \/ Contains(normalized, scientific_name))

_find_animals_in_prompt(normalized, animal_list) ==
  SelectSeq(animal_list, LAMBDA a : AnimalMatches(normalized, a))

(* _extract_requested_animal_name.  The three regular expressions have the *)
(* shape (?:alt1|alt2|...)\s+([a-z\s-]+): one of the phrases, at least one *)
(* whitespace, then a non-empty run of name characters, which is group 1.  *)
NameChars == Letters \cup Whitespace \cup {"-"}

Patterns ==
  << << <<"t","e","l","l"," ","m","e"," ","a","b","o","u","t">>,
        <<"d","e","t","a","i","l","s"," ","o","f">>,
        <<"f","u","l","l"," ","d","e","t","a","i","l","s"," ","o","f">>,
        <<"i","n","f","o"," ","o","n">>,
        <<"i","n","f","o","r","m","a","t","i","o","n"," ","o","n">> >>,
     << <<"w","h","a","t"," ","i","s">> >>,
     << <<"a","b","o","u","t">> >> >>

\* the last index k >= from - 1 such that text[from..k] lies in chars (a greedy run)
RunEnd(text, from, chars) ==
  CHOOSE k \in (from - 1)..Len(text) :
    /\ \A m \in from..k : text[m] \in chars
    /\ (k = Len(text) \/ text[k + 1] \notin chars)

\* group 1 of a match of  phrase\s+([a-z\s-]+)  starting at index i, or None.
\* \s+ is greedy; when no name character follows the whitespace run, the
\* matcher backtracks and gives the run's last whitespace to the group.
MatchAt(text, i, phrase) ==
  LET j == i + Len(phrase)
  IN IF j > Len(text) \/ SubSeq(text, i, j - 1) # phrase \/ text[j] \notin Whitespace
       THEN None
     ELSE LET wsEnd == RunEnd(text, j, Whitespace)
          IN IF wsEnd < Len(text) /\ text[wsEnd + 1] \in NameChars
               THEN Some(SubSeq(text, wsEnd + 1, RunEnd(text, wsEnd + 1, NameChars)))
             ELSE IF wsEnd > j THEN Some(<<text[wsEnd]>>)
             ELSE None

\* re.search(pattern, prompt): the leftmost match, alternatives tried in order
Search(alternatives, text) ==
  LET hits == {i \in 1..Len(text) :
                 \E k \in 1..Len(alternatives) : MatchAt(text, i, alternatives[k]) # None}
  IN IF hits = {} THEN None
     ELSE LET i == Min(hits)
              k == Min({n \in 1..Len(alternatives) : MatchAt(text, i, alternatives[n]) # None})
          IN MatchAt(text, i, alternatives[k])

\* one iteration of the loop over patterns: the candidate it returns, or None
\* when it continues with the next pattern
Candidate(pattern, text) ==
  LET match == Search(pattern, text)
  IN IF match = None THEN None
     ELSE LET candidate == RStrip(Strip(match[1]), {"?"})
          IN IF Len(candidate) > 1 THEN Some(candidate) ELSE None

_extract_requested_animal_name(normalized) ==
  LET found == {k \in 1..Len(Patterns) : Candidate(Patterns[k], normalized) # None}
  IN IF found = {} THEN None ELSE Candidate(Patterns[Min(found)], normalized)

_format_animal_details(animal) ==
  LET regions == Join(<<",", " ">>, Get(animal, "regions", <<>>))
      traits == Join(<<";", " ">>, Get(animal, "traits", <<>>))
      facts == Join(<<" ", "|", " ">>, Get(animal, "facts", <<>>))
  IN Join(<<"\n">>,
       << <<"Animal: ">> \o CommonName(animal),
          <<"Scientific Name: ">> \o ScientificName(animal),
          <<"Classification: ">> \o Classification(animal),
          <<"Habitat: ">> \o Get(animal, "habitat", <<>>),
          <<"Diet: ">> \o Get(animal, "diet", <<>>),
          <<"Average Lifespan: ">> \o Get(animal, "averageLifespan", <<>>),
          <<"Average Weight: ">> \o Get(animal, "averageWeight", <<>>),
          <<"Top Speed: ">> \o Get(animal, "topSpeed", <<>>),
          <<"Conservation Status: ">> \o Get(animal, "conservationStatus", <<>>),
          <<"Regions: ">> \o regions,
          <<"Traits: ">> \o traits,
          <<"Facts: ">> \o facts >>)

\* animals[:8] in _build_missing_animal_reply
SuggestionLimit == 8

CommonNames(animal_list) == [i \in 1..Len(animal_list) |-> CommonName(animal_list[i])]

_build_missing_animal_reply(requested_animal, animal_list) ==
  LET suggestions == Join(<<",", " ">>, CommonNames(Take(animal_list, SuggestionLimit)))
  IN Join(<<"\n">>,
       << <<"I do not have full data for \"">> \o requested_animal \o <<"\" yet.">>,
          <<"You can add it in public/data/animals.json.">>,
          <<"Available examples: ">> \o suggestions \o <<".">> >>)

\* the `test` lambdas of the category catalogue
CategoryTest(key, a) ==
  LET common == Lower(CommonName(a))
      scientific == Lower(ScientificName(a))
      class == Lower(Classification(a))
  IN CASE key = <<"s","n","a","k","e">> ->
            \/ Contains(common, <<"s","n","a","k","e">>)
            \/ Contains(common, <<"c","o","b","r","a">>)
            \/ Contains(common, <<"p","y","t","h","o","n">>)
            \/ Contains(common, <<"v","i","p","e","r">>)
            \/ Contains(common, <<"m","a","m","b","a">>)
            \/ Contains(common, <<"a","n","a","c","o","n","d","a">>)
            \/ Contains(scientific, <<"s","e","r","p","e","n","t","e","s">>)
       [] key = <<"f","i","s","h">> ->
            class = <<"f","i","s","h">> \/ Contains(common, <<"s","h","a","r","k">>)
       [] OTHER -> class = key

\* the catalogue of _resolve_category_query, in its declared order
Categories ==
  << [key |-> <<"s","n","a","k","e">>,
      aliases |-> << <<"s","n","a","k","e">>, <<"s","n","a","k","e","s">> >>],
     [key |-> <<"b","i","r","d">>,
      aliases |-> << <<"b","i","r","d">>, <<"b","i","r","d","s">> >>],
     [key |-> <<"m","a","m","m","a","l">>,
      aliases |-> << <<"m","a","m","m","a","l">>, <<"m","a","m","m","a","l","s">> >>],
     [key |-> <<"r","e","p","t","i","l","e">>,
      aliases |-> << <<"r","e","p","t","i","l","e">>, <<"r","e","p","t","i","l","e","s">> >>],
     [key |-> <<"a","m","p","h","i","b","i","a","n">>,
      aliases |-> << <<"a","m","p","h","i","b","i","a","n">>,
                     <<"a","m","p","h","i","b","i","a","n","s">>,
                     <<"f","r","o","g">>, <<"f","r","o","g","s">> >>],
     [key |-> <<"f","i","s","h">>,
      aliases |-> << <<"f","i","s","h">>, <<"f","i","s","h","e","s">>,
                     <<"s","h","a","r","k">>, <<"s","h","a","r","k","s">> >>],
     [key |-> <<"i","n","s","e","c","t">>,
      aliases |-> << <<"i","n","s","e","c","t">>, <<"i","n","s","e","c","t","s">>,
                     <<"b","e","e">>, <<"b","e","e","s">> >>] >>

\* Variant: the loop keeps going, and the last category with an alias wins.
LastCategory(catalogue, normalized) ==
  LET hits == {k \in 1..Len(catalogue) : _matches_any(normalized, catalogue[k].aliases)}
  IN IF hits = {} THEN None ELSE Some(catalogue[Max(hits)])

\* the loop of _resolve_category_query over a catalogue: the first category with
\* an alias in the prompt, or None
FirstCategory(catalogue, normalized) ==
  LET hits == {k \in 1..Len(catalogue) : _matches_any(normalized, catalogue[k].aliases)}
  IN IF hits = {} THEN None ELSE Some(catalogue[Min(hits)])

_resolve_category_query(normalized) == FirstCategory(Categories, normalized)

_build_group_overview(category_key) ==
  IF category_key = <<"s","n","a","k","e">>
    THEN Join(<<"\n">>,
           << <<"Snakes are legless reptiles (suborder Serpentes).">>,
              <<"They are carnivorous and swallow prey whole because their jaws are highly flexible.">>,
              <<"Most species are non-venomous; some use venom for hunting and defense.">> >>)
    ELSE <<>>

CategoryEntry(animal) ==
  <<"- ">> \o CommonName(animal) \o <<": ">> \o Get(animal, "habitat", <<>>)
    \o <<"; diet: ">> \o Get(animal, "diet", <<>>)
    \o <<"; status: ">> \o Get(animal, "conservationStatus", <<>>)

\* _build_category_reply: None, or the listing
_build_category_reply(cat, animal_list) ==
  LET matches == SelectSeq(animal_list, LAMBDA a : CategoryTest(cat.key, a))
  IN IF Len(matches) = 0 THEN None
     ELSE LET overview == _build_group_overview(cat.key)
              entries == Join(<<"\n">>, [i \in 1..Len(matches) |-> CategoryEntry(matches[i])])
              key == cat.key
              heading == Upper(Take(key, 1)) \o SubSeq(key, 2, Len(key))
                           \o <<" entries in my dataset:">>
              ask == <<"Ask: \"tell me about ">> \o Lower(CommonName(matches[1])) \o <<"\".">>
              parts == << overview, <<>>, heading, entries, <<>>, ask >>
          IN Some(Join(<<"\n">>, SelectSeq(parts, LAMBDA part : part # <<>>)))

GreetingTriggers ==
  << <<"/","s","t","a","r","t">>, <<"s","t","a","r","t">>, <<"h","e","l","l","o">>,
     <<"h","i">>, <<"h","e","y">> >>
ListingTriggers ==
  << <<"l","i","s","t"," ","a","n","i","m","a","l","s">>,
     <<"a","n","i","m","a","l"," ","l","i","s","t">>, <<"/","l","i","s","t">> >>
RandomTriggers ==
  << <<"r","a","n","d","o","m"," ","a","n","i","m","a","l">>, <<"/","r","a","n","d","o","m">> >>

\* the condition of the loop over config intents in build_rule_reply
IntentMatches(intent, normalized) ==
  LET contains == Get(intent, "contains", <<>>)
  IN \E w \in 1..Len(contains) : Contains(normalized, Lower(contains[w]))

\* A return statement of build_rule_reply: which one (branch 1..8), the key of the
\* category _resolve_category_query gave (None when it gave none, or when that
\* line was not reached), and the
\* returned expression: kind "text" is the text itself, "pick_text" is
\* _pick(pick_from) followed by text, "pick_animal" is
\* _format_animal_details(_pick(pick_from)).
Return(n, cat, kind, pick_from, text) ==
  [branch |-> n, category |-> cat, kind |-> kind, pick_from |-> pick_from, text |-> text]

\* Variant: when the resolved category lists nothing, the later categories with
\* an alias in the prompt are tried in turn.
CategoryStageTryingLater(normalized, animal_list) ==
  LET cat == _resolve_category_query(normalized)
      listed == {k \in 1..Len(Categories) :
                   /\ _matches_any(normalized, Categories[k].aliases)
                   /\ _build_category_reply(Categories[k], animal_list) # None}
  IN IF cat = None THEN [key |-> None, reply |-> None]
     ELSE [key |-> Some(cat[1].key),
           reply |-> IF listed = {} THEN None
                     ELSE _build_category_reply(Categories[Min(listed)], animal_list)]

\* lines 201-205 of build_rule_reply: the category resolved from the prompt (its
\* key, or None) and its listing (None when no category, or no record of it)
CategoryStage(normalized, animal_list) ==
  LET cat == _resolve_category_query(normalized)
  IN IF cat = None THEN [key |-> None, reply |-> None]
     ELSE [key |-> Some(cat[1].key), reply |-> _build_category_reply(cat[1], animal_list)]

\* the returned expressions of build_rule_reply, in the order of its returns
GreetingReturn(cfg) ==
  Return(1, None, "pick_text", Get(cfg, "greetings", <<>>),
    <<"\n\nCommands:\n- list animals\n- random animal\n- tell me about <animal>">>)

ListingReturn(animal_list) ==
  Return(2, None, "text", <<>>,
    <<"I can share full details for ", ToString(Len(animal_list)), " animals:\n">>
      \o Join(<<",", " ">>, CommonNames(animal_list))
      \o <<"\n\nTry: tell me about bengal tiger">>)

RandomReturn(animal_list) ==
  IF Len(animal_list) = 0
    THEN Return(3, None, "text", <<>>, <<"Animal dataset is empty.">>)
    ELSE Return(3, None, "pick_animal", animal_list, <<>>)

CategoryReturn(key, category_reply) == Return(4, key, "text", <<>>, category_reply)

DirectReturn(key, matches) ==
  IF Len(matches) = 1
    THEN Return(5, key, "text", <<>>, _format_animal_details(matches[1]))
    ELSE Return(5, key, "text", <<>>,
           <<"I found multiple animals in your request: ">>
             \o Join(<<",", " ">>, CommonNames(matches))
             \o <<". Ask one at a time for full detail.">>)

MissingReturn(key, requested, animal_list) ==
  Return(6, key, "text", <<>>, _build_missing_animal_reply(requested, animal_list))

IntentReturn(key, intent) ==
  Return(7, key, "pick_text", Get(intent, "responses", <<>>), <<>>)

FallbackReturn(key, cfg) ==
  Return(8, key, "pick_text", Get(cfg, "fallback", <<>>), <<"\n\nTry: list animals">>)

\* Variant: the direct animal match is tried before the category listing.
DirectMatchBeforeCategory(p, cfg, animal_list) ==
  LET normalized == Lower(p)
      stage == CategoryStage(normalized, animal_list)
      matches == _find_animals_in_prompt(normalized, animal_list)
      requested == _extract_requested_animal_name(normalized)
      intents == Get(cfg, "intents", <<>>)
      hits == {k \in 1..Len(intents) : IntentMatches(intents[k], normalized)}
  IN IF _matches_any(normalized, GreetingTriggers) THEN GreetingReturn(cfg)
     ELSE IF _matches_any(normalized, ListingTriggers) THEN ListingReturn(animal_list)
     ELSE IF _matches_any(normalized, RandomTriggers) THEN RandomReturn(animal_list)
     ELSE IF Len(matches) >= 1 THEN DirectReturn(stage.key, matches)
     ELSE IF stage.reply # None /\ stage.reply[1] # <<>>
       THEN CategoryReturn(stage.key, stage.reply[1])
     ELSE IF requested # None /\ requested[1] # <<>>
       THEN MissingReturn(stage.key, requested[1], animal_list)
     ELSE IF hits # {} THEN IntentReturn(stage.key, intents[Min(hits)])
     ELSE FallbackReturn(stage.key, cfg)

\* build_rule_reply up to the return statement it reaches
build_rule_reply(p, cfg, animal_list) ==
  LET normalized == Lower(p)
      stage == CategoryStage(normalized, animal_list)
      matches == _find_animals_in_prompt(normalized, animal_list)
      requested == _extract_requested_animal_name(normalized)
      intents == Get(cfg, "intents", <<>>)
      hits == {k \in 1..Len(intents) : IntentMatches(intents[k], normalized)}
  IN IF _matches_any(normalized, GreetingTriggers) THEN GreetingReturn(cfg)
     ELSE IF _matches_any(normalized, ListingTriggers) THEN ListingReturn(animal_list)
     ELSE IF _matches_any(normalized, RandomTriggers) THEN RandomReturn(animal_list)
     ELSE IF stage.reply # None /\ stage.reply[1] # <<>>
       THEN CategoryReturn(stage.key, stage.reply[1])
     ELSE IF Len(matches) >= 1 THEN DirectReturn(stage.key, matches)
     ELSE IF requested # None /\ requested[1] # <<>>
       THEN MissingReturn(stage.key, requested[1], animal_list)
     ELSE IF hits # {} THEN IntentReturn(stage.key, intents[Min(hits)])
     ELSE FallbackReturn(stage.key, cfg)

\* what the _pick call of a return statement can give, over every byte
\* os.urandom can return (a return without _pick picks nothing)
Picks(ret) ==
  IF ret.kind = "text" THEN {<<>>} ELSE {_pick(ret.pick_from, rnd) : rnd \in Byte}

\* the value of the returned expression, given what its _pick call gave
ReturnValue(ret, choice) ==
  CASE ret.kind = "pick_text" -> choice \o ret.text
    [] ret.kind = "pick_animal" -> _format_animal_details(choice)
    [] OTHER -> ret.text

(* The model providers.  `http` is what requests.post and response.json()  *)
(* did: [kind |-> an exception class] or [kind |-> "json", body |-> ...].  *)
(* A provider function gives [raised |-> exception class or "", value |->  *)
(* the returned str, posted |-> whether requests.post was called].         *)
Raise(exception, posted) == [raised |-> exception, value |-> <<>>, posted |-> posted]
Returned(text) == [raised |-> "", value |-> text, posted |-> TRUE]

\* the isinstance chain on `content` in _call_huggingface_router
ContentText(content) ==
  CASE content.type = "str" -> Strip(content.value)
    [] content.type = "list" ->
         Strip(Join(<<>>, [i \in 1..Len(content.items) |->
                 CASE content.items[i].type = "str" -> content.items[i].value
                   [] content.items[i].type = "dict" -> Get(content.items[i], "text", <<>>)
                   [] OTHER -> <<>>]))
    [] OTHER -> <<>>

_call_huggingface_router(token, http) ==
  IF token = <<>> THEN Raise("RuntimeError", FALSE)
  ELSE IF http.kind # "json" THEN Raise(http.kind, TRUE)
  ELSE LET choices == Get(http.body, "choices", << <<>> >>)
       IN IF Len(choices) = 0 THEN Raise("IndexError", TRUE)
          ELSE Returned(ContentText(
                 Get(Get(choices[1], "message", <<>>), "content", [type |-> "str", value |-> <<>>])))

_call_ollama(http) ==
  IF http.kind # "json" THEN Raise(http.kind, TRUE)
  ELSE Returned(Strip(Get(http.body, "response", <<>>)))

\* the classes `except Exception` catches
ExceptionClasses ==
  {"RuntimeError", "ConnectionError", "Timeout", "HTTPError", "JSONDecodeError", "IndexError"}

\* Variant: the handler catches only the requests library's errors.
CatchesRequestErrorsOnly(exception) ==
  exception \in {"ConnectionError", "Timeout", "HTTPError"}

\* `except Exception` in generate_reply_with_qwen
Catches(exception) == exception \in ExceptionClasses

\* Variant: only the dataset-listing triggers stay deterministic.
StaysDeterministicForListingOnly(p) ==
  _matches_any(Lower(p), ListingTriggers)

\* the early return of generate_reply_with_qwen for dataset-listing and random prompts
StaysDeterministic(p) ==
  _matches_any(Lower(p), ListingTriggers \o RandomTriggers)

(***************************************************************************)
(* Inputs: prompts, knowledge documents, provider environments.            *)
(***************************************************************************)
Phrases ==
  << <<"H","e","l","l","o">>,
     <<"l","i","s","t"," ","a","n","i","m","a","l","s">>,
     <<"/","r","a","n","d","o","m">>,
     <<"b","i","r","d","s">>,
     <<"m","a","m","m","a","l","s">>,
     <<"t","e","l","l"," ","m","e"," ","a","b","o","u","t"," ","b","e","n","g","a","l"," ","t","i","g","e","r">>,
     <<"t","e","l","l"," ","m","e"," ","a","b","o","u","t"," ","d","o","d","o">>,
     <<"t","h","a","n","k","s">>,
     <<"b","a","l","d"," ","e","a","g","l","e">> >>

\* prompts of 1..MaxPhrases phrases separated by a space
Prompts ==
  UNION {{Join(<<" ">>, [i \in 1..n |-> Phrases[f[i]]]) : f \in [1..n -> 1..Len(Phrases)]}
           : n \in 1..MaxPhrases}

BengalTiger ==
  [commonName |-> <<"B","e","n","g","a","l"," ","T","i","g","e","r">>,
   scientificName |-> <<"P","a","n","t","h","e","r","a"," ","t","i","g","r","i","s">>,
   classification |-> <<"M","a","m","m","a","l">>,
   habitat |-> <<"Forests and grasslands">>, diet |-> <<"Carnivore">>,
   averageLifespan |-> <<"10-15 years">>, averageWeight |-> <<"220 kg">>,
   topSpeed |-> <<"60 km/h">>, conservationStatus |-> <<"Endangered">>,
   regions |-> << <<"India">>, <<"Bangladesh">> >>,
   traits |-> << <<"striped coat">> >>,
   facts |-> << <<"Tigers swim well.">>, <<"Each coat is unique.">> >>]

BaldEagle ==
  [commonName |-> <<"B","a","l","d"," ","E","a","g","l","e">>,
   scientificName |-> <<"H","a","l","i","a","e","e","t","u","s"," ","l","e","u","c","o","c","e","p","h","a","l","u","s">>,
   classification |-> <<"b","i","r","d">>,
   habitat |-> <<"Lakes and coasts">>, diet |-> <<"Fish">>,
   conservationStatus |-> <<"Least Concern">>,
   regions |-> << <<"North America">> >>]

WhaleShark ==
  [commonName |-> <<"W","h","a","l","e"," ","S","h","a","r","k">>,
   scientificName |-> <<"R","h","i","n","c","o","d","o","n"," ","t","y","p","u","s">>,
   classification |-> <<"f","i","s","h">>,
   habitat |-> <<"Tropical oceans">>, diet |-> <<"Plankton">>]

\* a record with a common name and no scientific name
Lion ==
  [commonName |-> <<"L","i","o","n">>, classification |-> <<"m","a","m","m","a","l">>,
   habitat |-> <<"Savanna">>]

Small(name, class) == [commonName |-> name, scientificName |-> name, classification |-> class]

Datasets ==
  { <<>>,
    <<BengalTiger>>,
    <<Lion, WhaleShark>>,
    <<WhaleShark,
      Small(<<"K","i","n","g"," ","C","o","b","r","a">>, <<"r","e","p","t","i","l","e">>),
      Small(<<"A","n","t">>, <<"i","n","s","e","c","t">>),
      Small(<<"B","a","t">>, <<"m","a","m","m","a","l">>),
      Small(<<"C","o","d">>, <<"f","i","s","h">>),
      Small(<<"E","l","k">>, <<"m","a","m","m","a","l">>),
      Small(<<"E","m","u">>, <<"b","i","r","d">>),
      BaldEagle,
      BengalTiger>> }

Configs ==
  { [greetings |-> << <<"Welcome to WildFact!">>, <<"Hi, I am WildFact.">> >>,
     fallback |-> << <<"I am not sure about that.">>, <<"I could not match that.">> >>,
     intents |-> << [contains |-> << <<"T","h","a","n","k">> >>,
                     responses |-> << <<"You are welcome!">>, <<"Any time.">> >>] >>],
    [fallback |-> <<>>,
     intents |-> << [contains |-> << <<"d","o","d","o">>, <<"t","h","a","n","k","s">> >>,
                     responses |-> <<>>],
                    [contains |-> << <<"t","h","a","n","k","s">> >>,
                     responses |-> << <<"You are welcome!">> >>] >>],
    [greetings |-> <<>>] }

Providers == {"huggingface", "ollama"}
Tokens == {<<>>, <<"h","f","_","x">>}

Answer == <<" ","T","i","g","e","r","s"," ","a","r","e"," ","b","i","g"," ","c","a","t","s","."," ">>
Choice(content) == [choices |-> << [message |-> [content |-> content]] >>]

HttpErrors == {[kind |-> e] : e \in {"ConnectionError", "Timeout", "HTTPError", "JSONDecodeError"}}
Json(body) == [kind |-> "json", body |-> body]

HttpResults(provider) ==
  HttpErrors \cup
  IF provider = "ollama"
    THEN {Json([response |-> Answer]), Json([response |-> <<" ", "\n">>]), Json([done |-> TRUE])}
    ELSE {Json(Choice([type |-> "str", value |-> Answer])),
          Json(Choice([type |-> "str", value |-> <<" ">>])),
          Json(Choice([type |-> "list",
                       items |-> << [type |-> "str", value |-> <<"T","i","g","e","r","s">>],
                                    [type |-> "dict", text |-> <<" ","a","r","e"," ","c","a","t","s"," ">>] >>])),
          Json(Choice([type |-> "null"])),
          Json([choices |-> <<>>]),
          Json([id |-> <<"x">>])}

\* the provider branch of the try block: which function is called
ProviderCall(provider, token, http) ==
  IF provider = "ollama" THEN _call_ollama(http)
  ELSE _call_huggingface_router(token, http)

\* what the provider call can do, over every environment and HTTP exchange
ProviderResults ==
  UNION {{ProviderCall(provider, token, http) : token \in Tokens, http \in HttpResults(provider)}
           : provider \in Providers}

(***************************************************************************)
(* generate_reply_with_qwen, step by step.                                 *)
(***************************************************************************)
PickIdle == options = <<>> /\ picked = None

\* run_polling before its first iteration: offset = 0, nothing has arrived
PollIdle ==
  /\ offset = 0
  /\ ppc = "poll"
  /\ batch = <<>>
  /\ updates = <<>>
  /\ fetched = [id \in 1..MaxUpdates |-> 0]
  /\ generated = [id \in 1..MaxUpdates |-> 0]
  /\ sent = [id \in 1..MaxUpdates |-> 0]
  /\ failed = {}
  /\ last_error = ""

EngineIdle ==
  /\ prompt = <<>> /\ config = <<>> /\ animals = <<>> /\ use_ai = FALSE
  /\ pc = "idle" /\ branch = 0 /\ category = None /\ fallback = None
  /\ calls = 0 /\ outcome = "none" /\ model_text = <<>> /\ raised = "" /\ reply = None

InitEngine ==
  /\ prompt \in Prompts
  /\ config \in Configs
  /\ animals \in Datasets
  /\ use_ai \in BOOLEAN
  /\ pc = "start"
  /\ branch = 0
  /\ category = None
  /\ fallback = None
  /\ calls = 0
  /\ outcome = "none"
  /\ model_text = <<>>
  /\ raised = ""
  /\ reply = None

Init == InitEngine /\ PickIdle /\ PollIdle

\* fallback = build_rule_reply(prompt, config, animals)
BuildRuleReply ==
  /\ pc = "start"
  /\ LET ret == build_rule_reply(prompt, config, animals)
     IN /\ branch' = ret.branch
        /\ category' = ret.category
        /\ \E choice \in Picks(ret) : fallback' = Some(ReturnValue(ret, choice))
  /\ pc' = "fallback"
  /\ UNCHANGED <<prompt, config, animals, use_ai, calls, outcome, model_text, raised, reply>>
  /\ UNCHANGED <<pickVars, pollVars>>

\* if not use_ai: return fallback
ReturnRuleReply ==
  /\ pc = "fallback"
  /\ ~use_ai
  /\ reply' = fallback
  /\ pc' = "done"
  /\ UNCHANGED <<prompt, config, animals, use_ai, branch, category, fallback,
                 calls, outcome, model_text, raised>>
  /\ UNCHANGED <<pickVars, pollVars>>

\* the early return for dataset-listing and random prompts
ReturnDeterministic ==
  /\ pc = "fallback"
  /\ use_ai
  /\ StaysDeterministic(prompt)
  /\ reply' = fallback
  /\ pc' = "done"
  /\ UNCHANGED <<prompt, config, animals, use_ai, branch, category, fallback,
                 calls, outcome, model_text, raised>>
  /\ UNCHANGED <<pickVars, pollVars>>

\* the try block: the provider call, `return reply or fallback`, and the handler
CallProvider ==
  /\ pc = "fallback"
  /\ use_ai
  /\ ~StaysDeterministic(prompt)
  /\ \E result \in ProviderResults :
       /\ calls' = calls + (IF result.posted THEN 1 ELSE 0)
       /\ outcome' = (IF result.raised = "" THEN "returned" ELSE "raised")
       /\ model_text' = result.value
       /\ IF result.raised = ""
            THEN /\ reply' = (IF result.value # <<>> THEN Some(result.value) ELSE fallback)
                 /\ raised' = ""
          ELSE IF Catches(result.raised)
            THEN reply' = fallback /\ raised' = ""
          ELSE reply' = None /\ raised' = result.raised
  /\ pc' = "done"
  /\ UNCHANGED <<prompt, config, animals, use_ai, branch, category, fallback>>
  /\ UNCHANGED <<pickVars, pollVars>>

Next == BuildRuleReply \/ ReturnRuleReply \/ ReturnDeterministic \/ CallProvider

Spec == Init /\ [][Next]_vars

(***************************************************************************)
(* _pick on its own, over lists of every length up to MaxOptions.  The     *)
(* list's element at (0-based) index i is the number i.                    *)
(***************************************************************************)
InitPick ==
  /\ options \in {[i \in 1..n |-> i - 1] : n \in 0..MaxOptions}
  /\ picked = None
  /\ EngineIdle
  /\ PollIdle

Pick ==
  /\ picked = None
  /\ \E rnd \in Byte : picked' = Some(_pick(options, rnd))
  /\ UNCHANGED <<options, engineVars, pollVars>>

NextPick == Pick

SpecPick == InitPick /\ [][NextPick]_vars

(***************************************************************************)
(* telegram_polling_bot.run_polling.  An update is [text |-> whether       *)
(* message.text is a str, chat |-> whether message.chat.id is present];    *)
(* Telegram numbers the updates 1, 2, ... in the order they arrive, and    *)
(* getUpdates answers with updates whose id is at least the offset, in     *)
(* ascending order.                                                        *)
(***************************************************************************)
UpdateShapes == [text : BOOLEAN, chat : BOOLEAN]

\* Variant: the offset is the id of the update itself.
OffsetAtUpdate(update_id) == update_id

\* offset = int(update.get("update_id", 0)) + 1
NextOffset(update_id) == update_id + 1

\* the ids getUpdates may return for an offset: the pending ones, oldest first
Pending(from) == [i \in 1..(Len(updates) - Max({from, 1}) + 1) |-> Max({from, 1}) + i - 1]

Bump(counter, id) == [counter EXCEPT ![id] = @ + 1]

\* the for loop moves on to the next update, or ends and the while loop polls again
Continue(rest) ==
  /\ batch' = rest
  /\ ppc' = (IF rest = <<>> THEN "poll" ELSE "loop")

\* the except clause: the for loop is abandoned, the while loop polls again
Except(what) ==
  /\ batch' = <<>>
  /\ ppc' = "poll"
  /\ last_error' = what

\* Telegram: a user sends the bot something
Arrive ==
  /\ Len(updates) < MaxUpdates
  /\ \E shape \in UpdateShapes : updates' = Append(updates, shape)
  /\ UNCHANGED <<offset, ppc, batch, fetched, generated, sent, failed, last_error>>
  /\ UNCHANGED <<engineVars, pickVars>>

\* telegram_call(token, "getUpdates", {"offset": offset, ...}) returns
GetUpdates ==
  /\ ppc = "poll"
  /\ LET pending == Pending(offset)
     IN \E n \in (IF Len(pending) = 0 THEN {0} ELSE 1..Len(pending)) :
          /\ Continue(SubSeq(pending, 1, n))
          /\ fetched' = [id \in 1..MaxUpdates |->
                           IF id \in {pending[i] : i \in 1..n} THEN fetched[id] + 1
                           ELSE fetched[id]]
  /\ UNCHANGED <<offset, updates, generated, sent, failed, last_error>>
  /\ UNCHANGED <<engineVars, pickVars>>

\* telegram_call(token, "getUpdates", ...) raises
GetUpdatesFails ==
  /\ ppc = "poll"
  /\ Except("getUpdates")
  /\ UNCHANGED <<offset, updates, fetched, generated, sent, failed>>
  /\ UNCHANGED <<engineVars, pickVars>>

\* one iteration of the for loop that hits a `continue`
SkipUpdate ==
  /\ ppc = "loop"
  /\ LET id == Head(batch)
     IN /\ ~(updates[id].text /\ updates[id].chat)
        /\ offset' = NextOffset(id)
        /\ Continue(Tail(batch))
  /\ UNCHANGED <<updates, fetched, generated, sent, failed, last_error>>
  /\ UNCHANGED <<engineVars, pickVars>>

\* one iteration of the for loop in which load_knowledge raises
LoadKnowledgeFails ==
  /\ ppc = "loop"
  /\ LET id == Head(batch)
     IN /\ updates[id].text /\ updates[id].chat
        /\ offset' = NextOffset(id)
        /\ failed' = failed \cup {id}
        /\ Except("load_knowledge")
  /\ UNCHANGED <<updates, fetched, generated, sent>>
  /\ UNCHANGED <<engineVars, pickVars>>

\* one iteration of the for loop in which generate_reply_with_qwen raises
GenerateFails ==
  /\ ppc = "loop"
  /\ LET id == Head(batch)
     IN /\ updates[id].text /\ updates[id].chat
        /\ offset' = NextOffset(id)
        /\ generated' = Bump(generated, id)
        /\ failed' = failed \cup {id}
        /\ Except("generate_reply_with_qwen")
  /\ UNCHANGED <<updates, fetched, sent>>
  /\ UNCHANGED <<engineVars, pickVars>>

\* one iteration of the for loop in which sendMessage raises
SendMessageFails ==
  /\ ppc = "loop"
  /\ LET id == Head(batch)
     IN /\ updates[id].text /\ updates[id].chat
        /\ offset' = NextOffset(id)
        /\ generated' = Bump(generated, id)
        /\ sent' = Bump(sent, id)
        /\ failed' = failed \cup {id}
        /\ Except("sendMessage")
  /\ UNCHANGED <<updates, fetched>>
  /\ UNCHANGED <<engineVars, pickVars>>

\* one iteration of the for loop that answers the update
AnswerUpdate ==
  /\ ppc = "loop"
  /\ LET id == Head(batch)
     IN /\ updates[id].text /\ updates[id].chat
        /\ offset' = NextOffset(id)
        /\ generated' = Bump(generated, id)
        /\ sent' = Bump(sent, id)
        /\ Continue(Tail(batch))
  /\ UNCHANGED <<updates, fetched, failed, last_error>>
  /\ UNCHANGED <<engineVars, pickVars>>

NextPoll ==
  \/ Arrive
  \/ GetUpdates
  \/ GetUpdatesFails
  \/ SkipUpdate
  \/ LoadKnowledgeFails
  \/ GenerateFails
  \/ SendMessageFails
  \/ AnswerUpdate

InitPoll == EngineIdle /\ PickIdle /\ PollIdle

SpecPoll == InitPoll /\ [][NextPoll]_vars

(***************************************************************************)
(* Properties.  The vocabulary below restates the triggers from the        *)
(* specification's wording, on the prompt and the documents of the state.  *)
(***************************************************************************)
Normalized == Lower(prompt)

\* build_rule_reply has returned
Built == pc \in {"fallback", "done"}

InPrompt(word) == Contains(Normalized, word)

GreetingWords ==
  { <<"/","s","t","a","r","t">>, <<"s","t","a","r","t">>, <<"h","e","l","l","o">>,
    <<"h","i">>, <<"h","e","y">> }
ListingWords ==
  { <<"l","i","s","t"," ","a","n","i","m","a","l","s">>,
    <<"a","n","i","m","a","l"," ","l","i","s","t">>, <<"/","l","i","s","t">> }
RandomWords ==
  { <<"r","a","n","d","o","m"," ","a","n","i","m","a","l">>, <<"/","r","a","n","d","o","m">> }

DeclaredOrder ==
  << <<"s","n","a","k","e">>, <<"b","i","r","d">>, <<"m","a","m","m","a","l">>,
     <<"r","e","p","t","i","l","e">>, <<"a","m","p","h","i","b","i","a","n">>,
     <<"f","i","s","h">>, <<"i","n","s","e","c","t">> >>

\* an alias of the k-th declared category occurs in the prompt
AliasInPrompt(k) ==
  \E i \in 1..Len(Categories[k].aliases) : InPrompt(Categories[k].aliases[i])

\* the k-th declared category is the earliest one with an alias in the prompt
EarliestWithAlias(k) ==
  AliasInPrompt(k) /\ \A j \in 1..(k - 1) : ~AliasInPrompt(j)

\* the records of the dataset that satisfy a category's predicate
RecordsOf(key) == {i \in 1..Len(animals) : CategoryTest(key, animals[i])}

\* the record's common name is not empty, and its common or its scientific
\* name is a substring of the prompt
NamedInPrompt(a) ==
  /\ Lower(CommonName(a)) # <<>>
  /\ InPrompt(Lower(CommonName(a))) \/ InPrompt(Lower(ScientificName(a)))

DirectMatches == {i \in 1..Len(animals) : NamedInPrompt(animals[i])}

ConfiguredIntents == Get(config, "intents", <<>>)

IntentTriggered(k) ==
  \E w \in 1..Len(Get(ConfiguredIntents[k], "contains", <<>>)) :
    InPrompt(Lower(Get(ConfiguredIntents[k], "contains", <<>>)[w]))

\* the trigger of pipeline stage n applies to the prompt
Triggered(n) ==
  CASE n = 1 -> \E w \in GreetingWords : InPrompt(w)
    [] n = 2 -> \E w \in ListingWords : InPrompt(w)
    [] n = 3 -> \E w \in RandomWords : InPrompt(w)
    [] n = 4 -> \E k \in 1..Len(Categories) : AliasInPrompt(k)
    [] n = 5 -> DirectMatches # {}
    [] n = 6 -> _extract_requested_animal_name(Normalized) # None
    [] n = 7 -> \E k \in 1..Len(ConfiguredIntents) : IntentTriggered(k)
    [] OTHER -> TRUE

\* pipeline branch n is applicable: its trigger applies and, for the category
\* listing, the resolved category lists at least one record
Applicable(n) ==
  IF n = 4
    THEN \E k \in 1..Len(Categories) :
           EarliestWithAlias(k) /\ RecordsOf(Categories[k].key) # {}
    ELSE Triggered(n)

\* C1: build_rule_reply returns from exactly one of the eight branches, the first
\* applicable one in the order greeting, listing, random, category listing with a
\* matching record, direct match, missing-animal name, configured intent,
\* fallback; no earlier branch is applicable.  In the direct-match branch one
\* match gives the detail text and several give the disambiguation message.
C1_FirstApplicableBranchWins ==
  Built =>
    /\ branch \in 1..8
    /\ Applicable(branch)
    /\ \A earlier \in 1..(branch - 1) : ~Applicable(earlier)
    /\ branch = 5 =>
         fallback[1][1] = (IF Cardinality(DirectMatches) = 1 THEN "Animal: "
                           ELSE "I found multiple animals in your request: ")

\* C1 witness: the category listing produced the reply although the direct
\* match, the name extractor and the fallback were applicable too.
C1_Witness ==
  /\ pc = "done"
  /\ branch = 4
  /\ Applicable(5)
  /\ Applicable(6)

\* C2: with use_ai set, no failure of the model call leaves
\* generate_reply_with_qwen: when the provider call raises or returns an empty
\* response the returned value is the deterministic reply build_rule_reply
\* computed, and the model's text is returned only when the call succeeded with
\* a non-empty response.
C2_ProviderFailureFallsBack ==
  (pc = "done" /\ use_ai) =>
    /\ raised = ""
    /\ reply # None
    /\ LET ret == build_rule_reply(prompt, config, animals)
       IN \E choice \in Picks(ret) : fallback[1] = ReturnValue(ret, choice)
    /\ (outcome = "raised" \/ (outcome = "returned" /\ model_text = <<>>)) => reply = fallback
    /\ reply # fallback => (outcome = "returned" /\ model_text # <<>> /\ reply = Some(model_text))

\* C2 witness: the provider call was posted and raised, and the deterministic
\* reply was returned.
C2_Witness ==
  /\ pc = "done"
  /\ use_ai
  /\ outcome = "raised"
  /\ calls = 1
  /\ reply = fallback
  /\ reply # None

\* C3: for a non-empty prompt and a non-empty animal list the reply of
\* generate_reply_with_qwen is a non-empty string, for every config and branch.
C3_ReplyIsNonEmpty ==
  (pc = "done" /\ prompt # <<>> /\ animals # <<>>) =>
    (raised = "" /\ reply # None /\ reply[1] # <<>>)

\* C4: a prompt with a dataset-listing or random trigger makes no external model
\* call even with use_ai set and gets the deterministic reply; with use_ai false
\* no prompt makes an external call.
C4_NoCallWhenDeterministic ==
  (pc = "done" /\ (~use_ai \/ \E w \in ListingWords \cup RandomWords : InPrompt(w))) =>
    /\ calls = 0
    /\ outcome = "none"
    /\ reply # None
    /\ reply = fallback

\* C4 witness: use_ai is set, the prompt holds "/random", and the call returned
\* without any request to the provider.
C4_Witness ==
  /\ pc = "done"
  /\ use_ai
  /\ InPrompt(<<"/","r","a","n","d","o","m">>)
  /\ calls = 0
  /\ reply = fallback
TellMeAbout == <<"t","e","l","l"," ","m","e"," ","a","b","o","u","t"," ">>
BengalTigerPrompt == TellMeAbout \o <<"b","e","n","g","a","l"," ","t","i","g","e","r">>

\* the dataset holds "Bengal Tiger", classified as a mammal
HoldsBengalTiger ==
  \E i \in 1..Len(animals) :
    /\ CommonName(animals[i]) = <<"B","e","n","g","a","l"," ","T","i","g","e","r">>
    /\ Lower(Classification(animals[i])) = <<"m","a","m","m","a","l">>

\* C5 as stated: with "Bengal Tiger" (a mammal) in the dataset, the prompt
\* "tell me about bengal tiger" is resolved by the category branch (step 4).
C5_ResolvedByCategoryBranch ==
  (Built /\ prompt = BengalTigerPrompt /\ HoldsBengalTiger) => branch = 4

\* C5 as amended: with "Bengal Tiger" (a mammal) in the dataset, the prompt
\* "tell me about bengal tiger" holds no category alias, so no category is
\* resolved and the direct-match branch (step 5) produces the reply.
C5_ResolvedByDirectMatch ==
  (Built /\ prompt = BengalTigerPrompt /\ HoldsBengalTiger) =>
    (branch = 5 /\ category = None /\ \A k \in 1..Len(Categories) : ~AliasInPrompt(k))

\* C5 witness: that prompt on a dataset where only Bengal Tiger matches, answered
\* with its detail text.
C5_Witness ==
  /\ Built
  /\ prompt = BengalTigerPrompt
  /\ HoldsBengalTiger
  /\ branch = 5
  /\ fallback = Some(_format_animal_details(BengalTiger))

\* the name X of a prompt "tell me about X"
AskedName == SubSeq(Normalized, Len(TellMeAbout) + 1, Len(Normalized))

\* the prompt is "tell me about X", X a name of two or more name characters
\* with no space at either end
AsksAboutName ==
  /\ Len(Normalized) > Len(TellMeAbout) + 1
  /\ SubSeq(Normalized, 1, Len(TellMeAbout)) = TellMeAbout
  /\ \A i \in 1..Len(AskedName) : AskedName[i] \in Letters \cup {" ", "-"}
  /\ AskedName[1] # " " /\ AskedName[Len(AskedName)] # " "

\* no non-empty common or scientific name of a record occurs in the prompt
NoRecordNamed ==
  \A i \in 1..Len(animals) :
    /\ CommonName(animals[i]) # <<>> => ~InPrompt(Lower(CommonName(animals[i])))
    /\ ScientificName(animals[i]) # <<>> => ~InPrompt(Lower(ScientificName(animals[i])))

\* C6: for a prompt "tell me about X", X the name of no record of the dataset and
\* the prompt free of greeting, listing, random and category triggers,
\* build_rule_reply returns the missing-animal notice that names X and lists the
\* first 8 (at most) common names of the dataset; for every dataset, also one
\* with records that have a common name and no scientific name.
C6_MissingAnimalNotice ==
  (Built /\ AsksAboutName /\ NoRecordNamed /\ \A n \in 1..4 : ~Triggered(n)) =>
    /\ branch = 6
    /\ fallback = Some(
         <<"I do not have full data for \"">> \o AskedName
           \o <<"\" yet.", "\n", "You can add it in public/data/animals.json.", "\n",
                "Available examples: ">>
           \o Join(<<",", " ">>,
                [i \in 1..(IF Len(animals) < 8 THEN Len(animals) ELSE 8) |->
                   CommonName(animals[i])])
           \o <<".">>)

\* C7: _resolve_category_query returns the earliest category, in the declared
\* order snake, bird, mammal, reptile, amphibian, fish, insect, that has an alias
\* in the prompt, and none when no alias occurs.
C7_FirstAliasWins ==
  /\ [k \in 1..Len(Categories) |-> Categories[k].key] = DeclaredOrder
  /\ (Built /\ branch >= 4) =>
       /\ category = None => \A k \in 1..Len(Categories) : ~AliasInPrompt(k)
       /\ category # None =>
            \E k \in 1..Len(Categories) :
              DeclaredOrder[k] = category[1] /\ EarliestWithAlias(k)

\* C7 witness: "mammals birds" holds aliases of bird and of mammal, mammal's
\* first in the text, and resolved to bird.
C7_Witness ==
  /\ Built
  /\ prompt = <<"m","a","m","m","a","l","s"," ","b","i","r","d","s">>
  /\ AliasInPrompt(2) /\ AliasInPrompt(3)
  /\ category = Some(<<"b","i","r","d">>)

\* the resolved category has no record in the dataset
ResolvedCategoryIsEmpty ==
  /\ Built /\ branch >= 4
  /\ category # None
  /\ RecordsOf(category[1]) = {}

\* C9: when the resolved category has no record, the category intent is dropped
\* and the reply comes from the first applicable of the later stages (direct
\* match, name extraction, configured intent, fallback), never from a
\* later-declared category whose alias also occurs; every other stage that is
\* reached with its trigger applying produces the reply.
C9_EmptyCategoryFallsThrough ==
  /\ ResolvedCategoryIsEmpty =>
       /\ branch \in 5..8
       /\ Triggered(branch)
       /\ \A stage \in 5..(branch - 1) : ~Triggered(stage)
  /\ Built => \A stage \in {1, 2, 3, 5, 6, 7} :
                (branch >= stage /\ Triggered(stage)) => branch = stage

\* C9 witness: the resolved category (bird) has no record, a later category
\* (mammal) has an alias in the prompt and records in the dataset, and the reply
\* is not a category listing.
C9_Witness ==
  /\ ResolvedCategoryIsEmpty
  /\ category = Some(<<"b","i","r","d">>)
  /\ AliasInPrompt(3)
  /\ RecordsOf(<<"m","a","m","m","a","l">>) # {}
  /\ branch > 4

\* C8: for a non-empty sequence every index can be selected by _pick (some byte
\* gives the element at that index), and what _pick returns is an element of
\* the sequence.
C8_EveryIndexSelectable ==
  (Len(options) > 0 /\ picked # None) =>
    /\ \E i \in 1..Len(options) : picked[1] = options[i]
    /\ {options[i] : i \in 1..Len(options)} \subseteq {_pick(options, rnd) : rnd \in Byte}

\* the ids of the updates still to be iterated in the current result
InBatch == {batch[i] : i \in 1..Len(batch)}

\* C10: every update is passed to reply generation at most once and answered
\* with sendMessage at most once, whatever getUpdates, load_knowledge, reply
\* generation and sendMessage calls fail; the offset is past every update whose
\* handling began, and an update whose handling raised is not fetched again.
C10_HandledAtMostOnce ==
  \A id \in 1..MaxUpdates :
    /\ generated[id] <= 1
    /\ sent[id] <= 1
    /\ (generated[id] > 0 \/ id \in failed) => (offset > id /\ id \notin InBatch)

\* C10 witness: an update's handling raised in sendMessage, which abandoned the
\* result it came in; a later update of that result was fetched again and
\* answered once.
C10_Witness ==
  \E id \in failed : \E later \in (id + 1)..MaxUpdates :
    /\ sent[id] = 1
    /\ fetched[later] = 2
    /\ sent[later] = 1
    /\ later \notin failed

====
